---- MODULE Spec2Model ----
(***************************************************************************)
(* Lexical analyser (analizar_lexico) and recursive-descent parser         *)
(* (class Parser, analizar_sintactico) of src/app.py.                      *)
(*                                                                         *)
(* The parser runs as a state machine: the Python call stack is the        *)
(* variable stack (its last element is the statement being executed), the  *)
(* cursor self.i is i, the diagnostic list self.err is err.  One action    *)
(* is one call of Parser.match, one loop test, or one dispatch.            *)
(*                                                                         *)
(* The lexical analyser runs one iteration of its for loop per step: pos   *)
(* is the offset re.finditer searches from, ms the matches it has yielded, *)
(* at the line being executed.                                             *)
(***************************************************************************)
EXTENDS Integers, Sequences, FiniteSets, TLC

VARIABLES
  t, i, err, stack, result,                   \* the parser
  codigo, pos, tokens, linea, col_base, ms, at  \* the lexical analyser

pvars == <<t, i, err, stack, result>>
lvars == <<codigo, pos, tokens, linea, col_base, ms, at>>
vars == <<pvars, lvars>>

\* Longest run of arbitrary tokens appended to a program prefix.
MaxBody == 2

\* Longest source text given to the lexical analyser.
MaxText == 4

-----------------------------------------------------------------------------
(* Tokens: the dictionaries analizar_lexico builds.                        *)

Tok(tipo, lexema) == [tipo |-> tipo, lexema |-> lexema, linea |-> 1, columna |-> 1]

\* Python's None as an omitted tipo / lexema / msg argument of match, and as
\* the value of peek() past the last token.
None == "<None>"
NoneTok == [tipo |-> None, lexema |-> None, linea |-> 0, columna |-> 0]

programa_tok == Tok("PALABRA_RESERVADA", "programa")
int_tok      == Tok("PALABRA_RESERVADA", "int")
read_tok     == Tok("PALABRA_RESERVADA", "read")
printf_tok   == Tok("PALABRA_RESERVADA", "printf")
end_tok      == Tok("PALABRA_RESERVADA", "end")
id_tok       == Tok("IDENTIFICADOR", "a")
num_tok      == Tok("NUMERO", "1")
cad_tok      == Tok("CADENA", "\"s\"")
lpar_tok     == Tok("DELIMITADOR", "(")
rpar_tok     == Tok("DELIMITADOR", ")")
lbrace_tok   == Tok("DELIMITADOR", "{")
rbrace_tok   == Tok("DELIMITADOR", "}")
semi_tok     == Tok("DELIMITADOR", ";")
comma_tok    == Tok("DELIMITADOR", ",")
eq_tok       == Tok("SIMBOLO", "=")
plus_tok     == Tok("SIMBOLO", "+")
minus_tok    == Tok("SIMBOLO", "-")
star_tok     == Tok("SIMBOLO", "*")
slash_tok    == Tok("SIMBOLO", "/")
hash_tok     == Tok("DESCONOCIDO", "#")

\* The tokens an arbitrary run is drawn from.
Alphabet ==
  { end_tok, id_tok, num_tok, lpar_tok, rpar_tok, rbrace_tok, semi_tok,
    eq_tok, plus_tok, hash_tok }

Header == <<programa_tok, id_tok, lpar_tok, rpar_tok, lbrace_tok>>

\* Well-formed program texts whose prefixes start the inputs.
Templates ==
  { Header \o <<int_tok, id_tok, comma_tok, id_tok, semi_tok>>,
    Header \o <<read_tok, id_tok, semi_tok>>,
    Header \o <<printf_tok, lpar_tok, cad_tok, rpar_tok, semi_tok>>,
    Header \o <<id_tok, eq_tok, lpar_tok, id_tok, minus_tok, num_tok, rpar_tok,
                slash_tok, id_tok, semi_tok>>,
    Header \o <<end_tok, semi_tok, end_tok, semi_tok>> }

Prefixes == UNION { { SubSeq(p, 1, n) : n \in 0..Len(p) } : p \in Templates }

Runs == UNION { [1..n -> Alphabet] : n \in 0..MaxBody }

\* Each token on a line of its own: linea is the token's position.
Numbered(s) == [k \in DOMAIN s |-> [s[k] EXCEPT !.linea = k]]

Inputs == { Numbered(p \o r) : p \in Prefixes, r \in Runs }

-----------------------------------------------------------------------------
(* Lexical analyser.  A text is a sequence of characters; offsets count    *)
(* from 0 as in Python, so the character at offset p is s[p + 1].          *)

RESERVADAS ==
  { "programa", "int", "float", "double", "char", "void",
    "for", "while", "if", "else",
    "read", "printf", "end", "return", "system", "print" }

\* The characters of the texts analysed.
CharSet == { "I", "f", "1", ".", "\"", "/", "=", "#", " ", "\n", "\r" }

Texts == UNION { [1..n -> CharSet] : n \in 0..MaxText }

\* [^\n] (also what . matches) and [^"\n]
NotNewline == CharSet \ { "\n" }
NotQuoteNorNewline == CharSet \ { "\"", "\n" }

Digits == { "0", "1", "2", "3", "4", "5", "6", "7", "8", "9" }
Upper == { "A", "B", "C", "D", "E", "F", "G", "H", "I", "J", "K", "L", "M",
           "N", "O", "P", "Q", "R", "S", "T", "U", "V", "W", "X", "Y", "Z" }
Lowers == { "a", "b", "c", "d", "e", "f", "g", "h", "i", "j", "k", "l", "m",
            "n", "o", "p", "q", "r", "s", "t", "u", "v", "w", "x", "y", "z" }
\* [A-Za-z_] and \w
LetterOrUnderscore == Upper \cup Lowers \cup { "_" }
WordChars == LetterOrUnderscore \cup Digits
\* \s
Spaces == { " ", "\t", "\n", "\r", "\f" }

\* The character at offset p, "" past the end of the text.
At(s, p) == IF 0 <= p /\ p < Len(s) THEN s[p + 1] ELSE ""

\* Where the longest run of characters of class, starting at offset p, ends.
RECURSIVE Run(_, _, _)
Run(s, p, class) == IF At(s, p) \in class THEN Run(s, p + 1, class) ELSE p

\* The patterns of token_specs (lines 17-24): the offset at which the match
\* starting at offset p ends, -1 when the pattern does not match there.

\* //[^\n]*
LINE_COMMENT(s, p) ==
  IF At(s, p) = "/" /\ At(s, p + 1) = "/"
  THEN Run(s, p + 2, NotNewline)
  ELSE -1

\* \d+(\.\d+)?
NUMERO(s, p) ==
  IF At(s, p) \in Digits
  THEN LET e == Run(s, p, Digits)
       IN  IF At(s, e) = "." /\ At(s, e + 1) \in Digits
           THEN Run(s, e + 1, Digits)
           ELSE e
  ELSE -1

\* "[^"\n]*"? : the closing quote made optional.
CADENA_unclosed(s, p) ==
  IF At(s, p) = "\""
  THEN LET e == Run(s, p + 1, NotQuoteNorNewline)
       IN  IF At(s, e) = "\"" THEN e + 1 ELSE e
  ELSE -1

\* "[^"\n]*"
CADENA(s, p) ==
  IF At(s, p) = "\""
  THEN LET e == Run(s, p + 1, NotQuoteNorNewline)
       IN  IF At(s, e) = "\"" THEN e + 1 ELSE -1
  ELSE -1

\* [A-Za-z_]\w*
IDENTIFICADOR(s, p) ==
  IF At(s, p) \in LetterOrUnderscore THEN Run(s, p + 1, WordChars) ELSE -1

\* <=|>=|==|!=|\+\+|--|[=+\-*/%<>]
SIMBOLO(s, p) ==
  IF <<At(s, p), At(s, p + 1)>> \in
       { <<"<", "=">>, <<">", "=">>, <<"=", "=">>, <<"!", "=">>,
         <<"+", "+">>, <<"-", "-">> }
  THEN p + 2
  ELSE IF At(s, p) \in { "=", "+", "-", "*", "/", "%", "<", ">" }
  THEN p + 1
  ELSE -1

\* [;(),{}\.\[\]]
DELIMITADOR(s, p) ==
  IF At(s, p) \in { ";", "(", ")", ",", "{", "}", ".", "[", "]" }
  THEN p + 1
  ELSE -1

\* \s+
ESPACIO(s, p) == IF At(s, p) \in Spaces THEN Run(s, p, Spaces) ELSE -1

\* The last alternative left out.
DESCONOCIDO_none(s, p) == -1

\* .  (any character but a newline)
DESCONOCIDO(s, p) == IF At(s, p) \in NotNewline THEN p + 1 ELSE -1

\* The alternatives of regex_tokens (line 26) in their order.
token_specs ==
  << "LINE_COMMENT", "NUMERO", "CADENA", "IDENTIFICADOR", "SIMBOLO",
     "DELIMITADOR", "ESPACIO", "DESCONOCIDO" >>

PatternEnd(tipo, s, p) ==
  CASE tipo = "LINE_COMMENT"  -> LINE_COMMENT(s, p)
    [] tipo = "NUMERO"        -> NUMERO(s, p)
    [] tipo = "CADENA"        -> CADENA(s, p)
    [] tipo = "IDENTIFICADOR" -> IDENTIFICADOR(s, p)
    [] tipo = "SIMBOLO"       -> SIMBOLO(s, p)
    [] tipo = "DELIMITADOR"   -> DELIMITADOR(s, p)
    [] tipo = "ESPACIO"       -> ESPACIO(s, p)
    [] tipo = "DESCONOCIDO"   -> DESCONOCIDO(s, p)

\* No match object.
NoMatch == [lastgroup |-> None, start |-> -1, end |-> -1]

\* The match of regex_tokens at offset p: that of the first alternative,
\* from the k-th on, that matches there.
RECURSIVE MatchFrom(_, _, _)
MatchFrom(s, p, k) ==
  IF k > Len(token_specs)
  THEN NoMatch
  ELSE LET e == PatternEnd(token_specs[k], s, p)
       IN  IF e # -1
           THEN [lastgroup |-> token_specs[k], start |-> p, end |-> e]
           ELSE MatchFrom(s, p, k + 1)

MatchAt(s, p) == MatchFrom(s, p, 1)

\* re.finditer, one step (line 33): the first match at or after offset p.
RECURSIVE Search(_, _)
Search(s, p) ==
  IF p >= Len(s)
  THEN NoMatch
  ELSE LET m == MatchAt(s, p)
       IN  IF m # NoMatch THEN m ELSE Search(s, p + 1)

\* m.group(0): the characters from offset a up to offset b, as a string.
RECURSIVE Group(_, _, _)
Group(s, a, b) == IF a >= b THEN "" ELSE s[a + 1] \o Group(s, a + 1, b)

ToLower == [ A |-> "a", B |-> "b", C |-> "c", D |-> "d", E |-> "e", F |-> "f", G |-> "g", H |-> "h", I |-> "i", J |-> "j", K |-> "k", L |-> "l", M |-> "m", N |-> "n", O |-> "o", P |-> "p", Q |-> "q", R |-> "r", S |-> "s", T |-> "t", U |-> "u", V |-> "v", W |-> "w", X |-> "x", Y |-> "y", Z |-> "z" ]

\* str.lower of the characters from offset a up to offset b.
RECURSIVE Lower(_, _, _)
Lower(s, a, b) ==
  IF a >= b THEN ""
  ELSE (IF s[a + 1] \in Upper THEN ToLower[s[a + 1]] ELSE s[a + 1]) \o Lower(s, a + 1, b)

\* Where the line starting at offset p ends, its line break included: after
\* "\n", "\r\n" or "\r", or at the end of the text.  (str.splitlines breaks
\* at other characters too; none of them is in CharSet.)
RECURSIVE LineEnd(_, _)
LineEnd(s, p) ==
  IF p >= Len(s) THEN p
  ELSE IF At(s, p) = "\n" THEN p + 1
  ELSE IF At(s, p) = "\r" THEN (IF At(s, p + 1) = "\n" THEN p + 2 ELSE p + 1)
  ELSE LineEnd(s, p + 1)

\* codigo.splitlines(keepends=True), from offset p on (line 31).
RECURSIVE splitlines(_, _)
splitlines(s, p) ==
  IF p >= Len(s) THEN <<>>
  ELSE <<SubSeq(s, p + 1, LineEnd(s, p))>> \o splitlines(s, LineEnd(s, p))

\* Line 38 with > for >=.
Beyond_strict(lineas, lin, base, start) ==
  lin - 1 < Len(lineas) /\ start > base + Len(lineas[lin])

\* Line 38: the test of the loop that moves to the line of offset start.
Beyond(lineas, lin, base, start) ==
  lin - 1 < Len(lineas) /\ start >= base + Len(lineas[lin])

\* Lines 38-40: linea and col_base after the loop.
RECURSIVE Advance(_, _, _, _)
Advance(lineas, lin, base, start) ==
  IF Beyond(lineas, lin, base, start)
  THEN Advance(lineas, lin + 1, base + Len(lineas[lin]), start)
  ELSE <<lin, base>>

\* Lines 47-50: the token of match m found on line lin at column col.
Token(s, m, lin, col) ==
  [ tipo    |-> IF m.lastgroup = "IDENTIFICADOR" /\ Lower(s, m.start, m.end) \in RESERVADAS
                THEN "PALABRA_RESERVADA" ELSE m.lastgroup,
    lexema  |-> Group(s, m.start, m.end),
    linea   |-> lin,
    columna |-> col ]

\* One iteration of the loop of analizar_lexico (lines 33-50), or its end
\* (line 51).  ms lists the matches re.finditer has yielded.
analizar_lexico ==
  /\ at = "L33"
  /\ \E m \in { Search(codigo, pos) } :
       IF m = NoMatch
       THEN /\ at' = "L51"
            /\ UNCHANGED <<pos, tokens, linea, col_base, ms>>
       ELSE \E lc \in { Advance(splitlines(codigo, 0), linea, col_base, m.start) } :
            LET columna == m.start - lc[2] + 1
            IN  /\ at' = "L33"
                /\ pos' = m.end
                /\ ms' = Append(ms, m)
                /\ linea' = lc[1]
                /\ col_base' = lc[2]
                /\ tokens' = IF m.lastgroup \in {"ESPACIO", "LINE_COMMENT"}
                             THEN tokens
                             ELSE Append(tokens, Token(codigo, m, lc[1], columna))
  /\ UNCHANGED <<codigo, pvars>>

\* The parser's variables while the lexical analyser runs, and the lexical
\* analyser's while the parser runs.
ParserIdle == t = <<>> /\ i = 0 /\ err = <<>> /\ stack = <<>> /\ result = <<>>
LexerIdle ==
  /\ codigo = <<>> /\ pos = 0 /\ tokens = <<>> /\ linea = 1 /\ col_base = 0
  /\ ms = <<>> /\ at = "L51"

\* analizar_lexico(codigo) is entered (lines 28-31).
LexInit ==
  /\ codigo \in Texts
  /\ pos = 0
  /\ tokens = <<>>
  /\ linea = 1
  /\ col_base = 0
  /\ ms = <<>>
  /\ at = "L33"
  /\ ParserIdle

LexNext == analizar_lexico

SpecLex == LexInit /\ [][LexNext]_vars

-----------------------------------------------------------------------------
(* Diagnostics.  A message is its fixed wording (text), plus the parts the *)
(* f-strings interpolate: the expected tipo/lexema, the found token and    *)
(* the line.  A part the wording lacks is the empty sequence.              *)

Fixed(text) == [text |-> text, esperado |-> <<>>, got |-> <<>>, linea |-> <<>>]

\* f"{tok['tipo']}('{tok['lexema']}')"
Found(tok) == <<tok.tipo, tok.lexema>>

\* Line 77: the message match builds when the caller passes none.
DefaultMsg(tipo, lexema, tok) ==
  [ text     |-> "Se esperaba ... pero se encontro ... (linea ...).",
    esperado |-> (IF tipo # None THEN <<tipo>> ELSE <<>>)
                 \o (IF lexema # None THEN <<lexema>> ELSE <<>>),
    got      |-> IF tok = NoneTok THEN <<"EOF">> ELSE Found(tok),
    linea    |-> IF tok = NoneTok THEN <<"-">> ELSE <<"n", tok.linea>> ]

\* Line 113.
StmtMsg(tok) ==
  [ text |-> "Sentencia no valida iniciando en ... (linea ...).",
    esperado |-> <<>>, got |-> Found(tok), linea |-> <<"n", tok.linea>> ]

\* Line 174.
FactorMsg(tok) ==
  [ text |-> "Factor invalido en la expresion: ... (linea ...).",
    esperado |-> <<>>, got |-> Found(tok), linea |-> <<"n", tok.linea>> ]

\* Line 183.
ExtraMsg(tok) ==
  [ text |-> "Tokens extra despues de cerrar el programa, empezando en '...' (linea ...).",
    esperado |-> <<>>, got |-> <<tok.lexema>>, linea |-> <<"n", tok.linea>> ]

FinInesperado == Fixed("Fin inesperado dentro del bloque.")
ExprIncompleta == Fixed("Expresion incompleta.")
FaltaCierre == "Falta '}' para cerrar el programa."

-----------------------------------------------------------------------------
(* Parser.  A frame is a statement of the source, named by its line, and   *)
(* the cursor value at which the loop it belongs to last began an          *)
(* iteration (mark, -1 before the first one).                              *)

Frame(pc) == [pc |-> pc, mark |-> -1]

Top == stack[Len(stack)]

\* Execution goes on, within the same function, at statement pc.
Goto(pc) == [stack EXCEPT ![Len(stack)].pc = pc]

\* The function returns to its caller.
Return == SubSeq(stack, 1, Len(stack) - 1)

\* The function goes on at statement pc after calling the one starting at callee.
Call(pc, callee) == Append(Goto(pc), Frame(callee))

\* After statement pc: "ret" is the end of the function body.
Continue(pc) == IF pc = "ret" THEN Return ELSE Goto(pc)

\* Parser.peek with k = 0 (lines 62-64).
peek == IF 0 <= i /\ i < Len(t) THEN t[i + 1] ELSE NoneTok

Is(tok, tipo, lexema) == tok.tipo = tipo /\ tok.lexema = lexema

\* The calls of Parser.match, by line: the arguments and the statement that
\* follows the call.
MatchCalls ==
  [ L86  |-> [tipo |-> "PALABRA_RESERVADA", lexema |-> "programa", next |-> "L87",
              msg |-> "Se esperaba la palabra 'programa' al inicio."],
    L87  |-> [tipo |-> "IDENTIFICADOR", lexema |-> None, next |-> "L88",
              msg |-> "Falta el nombre del programa despues de 'programa'."],
    L88  |-> [tipo |-> "DELIMITADOR", lexema |-> "(", next |-> "L89",
              msg |-> "Falta '(' despues del nombre del programa."],
    L89  |-> [tipo |-> "DELIMITADOR", lexema |-> ")", next |-> "L90",
              msg |-> "Falta ')' despues del nombre del programa."],
    L90  |-> [tipo |-> "DELIMITADOR", lexema |-> "{", next |-> "L91",
              msg |-> "Falta '{' para abrir el bloque del programa."],
    L93  |-> [tipo |-> "DELIMITADOR", lexema |-> "}", next |-> "ret",
              msg |-> FaltaCierre],
    L109 |-> [tipo |-> "DELIMITADOR", lexema |-> ";", next |-> "ret",
              msg |-> "Despues de 'end' debe ir ';'."],
    L118 |-> [tipo |-> "PALABRA_RESERVADA", lexema |-> "int", next |-> "L119",
              msg |-> None],
    L119 |-> [tipo |-> "IDENTIFICADOR", lexema |-> None, next |-> "L120",
              msg |-> "Se esperaba un identificador en la declaracion."],
    L122 |-> [tipo |-> "IDENTIFICADOR", lexema |-> None, next |-> "L120",
              msg |-> "Se esperaba un identificador despues de ','."],
    L123 |-> [tipo |-> "DELIMITADOR", lexema |-> ";", next |-> "ret",
              msg |-> "Falta ';' al final de la declaracion."],
    L127 |-> [tipo |-> "PALABRA_RESERVADA", lexema |-> "read", next |-> "L128",
              msg |-> None],
    L128 |-> [tipo |-> "IDENTIFICADOR", lexema |-> None, next |-> "L129",
              msg |-> "Se esperaba un identificador despues de 'read'."],
    L129 |-> [tipo |-> "DELIMITADOR", lexema |-> ";", next |-> "ret",
              msg |-> "Falta ';' despues de la instruccion 'read'."],
    L133 |-> [tipo |-> "PALABRA_RESERVADA", lexema |-> "printf", next |-> "L134",
              msg |-> None],
    L134 |-> [tipo |-> "DELIMITADOR", lexema |-> "(", next |-> "L135",
              msg |-> "Falta '(' en printf."],
    L135 |-> [tipo |-> "CADENA", lexema |-> None, next |-> "L136",
              msg |-> "Falta la cadena dentro de printf."],
    L136 |-> [tipo |-> "DELIMITADOR", lexema |-> ")", next |-> "L137",
              msg |-> "Falta ')' al cerrar printf."],
    L137 |-> [tipo |-> "DELIMITADOR", lexema |-> ";", next |-> "ret",
              msg |-> "Falta ';' al final de printf."],
    L141 |-> [tipo |-> "IDENTIFICADOR", lexema |-> None, next |-> "L142",
              msg |-> None],
    L142 |-> [tipo |-> "SIMBOLO", lexema |-> "=", next |-> "L143",
              msg |-> "Falta '=' en la asignacion."],
    L144 |-> [tipo |-> "DELIMITADOR", lexema |-> ";", next |-> "ret",
              msg |-> "Falta ';' al final de la asignacion."],
    L172 |-> [tipo |-> "DELIMITADOR", lexema |-> ")", next |-> "ret",
              msg |-> "Falta ')' para cerrar la expresion."] ]

\* Line 68 without its test of the lexeme.
Matches_anyLexema(tok, tipo, lexema) ==
  /\ tok # NoneTok
  /\ tipo = None \/ tok.tipo = tipo

\* Line 68: the current token exists and meets the constraints given.
Matches(tok, tipo, lexema) ==
  /\ tok # NoneTok
  /\ tipo = None \/ tok.tipo = tipo
  /\ lexema = None \/ tok.lexema = lexema

\* Lines 72-78 with the caller's msg ignored.
Mismatch_default(tipo, lexema, msg, tok) == DefaultMsg(tipo, lexema, tok)

\* Lines 72-78: the diagnostic of a mismatch.
Mismatch(tipo, lexema, msg, tok) ==
  IF msg = None THEN DefaultMsg(tipo, lexema, tok) ELSE Fixed(msg)

\* Line 80 without its test of tok, and line 80 left out.
Skip_always(tok, j) == j + 1
Skip_never(tok, j) == j

\* Line 80: a mismatch consumes the current token if there is one.
Skip(tok, j) == IF tok # NoneTok THEN j + 1 ELSE j

\* Parser.match (lines 66-81), called from the line Top.pc.
match ==
  /\ Top.pc \in DOMAIN MatchCalls
  /\ LET a == MatchCalls[Top.pc]
         tok == peek
     IN  /\ IF Matches(tok, a.tipo, a.lexema)
            THEN i' = i + 1 /\ err' = err
            ELSE /\ err' = Append(err, Mismatch(a.tipo, a.lexema, a.msg, tok))
                 /\ i' = Skip(tok, i)
         /\ stack' = Continue(a.next)
  /\ UNCHANGED <<t, result, lvars>>

\* Line 91 without its test of the lexeme.
StmtFollows_anyDelim(tok) == tok # NoneTok /\ tok.tipo # "DELIMITADOR"

\* Line 91: the test of parse_programa's loop.
StmtFollows(tok) == tok # NoneTok /\ ~Is(tok, "DELIMITADOR", "}")

\* parse_programa, lines 91-92: another statement, or on to line 93.
parse_programa ==
  /\ Top.pc = "L91"
  /\ stack' = IF StmtFollows(peek)
              THEN Append([stack EXCEPT ![Len(stack)].mark = i], Frame("L97"))
              ELSE Goto("L93")
  /\ UNCHANGED <<t, i, err, result, lvars>>

\* Lines 101-114 with line 110 testing as line 166 does.
Dispatch_numero(tok) ==
  IF      Is(tok, "PALABRA_RESERVADA", "int")    THEN "L118"
  ELSE IF Is(tok, "PALABRA_RESERVADA", "read")   THEN "L127"
  ELSE IF Is(tok, "PALABRA_RESERVADA", "printf") THEN "L133"
  ELSE IF Is(tok, "PALABRA_RESERVADA", "end")    THEN "L109"
  ELSE IF tok.tipo \in {"IDENTIFICADOR", "NUMERO"} THEN "L141"
  ELSE "L113"

\* parse_stmt (lines 96-114): where the statement at tok is parsed, "L109"
\* for 'end' (consumed at line 108), "L113" for an invalid statement.
Dispatch(tok) ==
  IF      Is(tok, "PALABRA_RESERVADA", "int")    THEN "L118"
  ELSE IF Is(tok, "PALABRA_RESERVADA", "read")   THEN "L127"
  ELSE IF Is(tok, "PALABRA_RESERVADA", "printf") THEN "L133"
  ELSE IF Is(tok, "PALABRA_RESERVADA", "end")    THEN "L109"
  ELSE IF tok.tipo = "IDENTIFICADOR"             THEN "L141"
  ELSE "L113"

parse_stmt ==
  /\ Top.pc = "L97"
  /\ LET tok == peek
         to == Dispatch(tok)
     IN  IF tok = NoneTok
         THEN /\ err' = Append(err, FinInesperado)
              /\ i' = i
              /\ stack' = Return
         ELSE IF to = "L113"
         THEN /\ err' = Append(err, StmtMsg(tok))
              /\ i' = i + 1
              /\ stack' = Return
         ELSE /\ err' = err
              /\ i' = IF to = "L109" THEN i + 1 ELSE i
              /\ stack' = Goto(to)
  /\ UNCHANGED <<t, result, lvars>>

\* Line 120: the test of parse_decl's loop.
CommaFollows(tok) == tok # NoneTok /\ Is(tok, "DELIMITADOR", ",")

\* parse_decl, lines 120-121: consume ',' and on to line 122, or on to 123.
parse_decl ==
  /\ Top.pc = "L120"
  /\ IF CommaFollows(peek)
     THEN /\ i' = i + 1
          /\ stack' = [stack EXCEPT ![Len(stack)] = [pc |-> "L122", mark |-> i]]
     ELSE /\ i' = i
          /\ stack' = Goto("L123")
  /\ UNCHANGED <<t, err, result, lvars>>

\* parse_assign, line 143: the call of parse_expr.
parse_assign ==
  /\ Top.pc = "L143"
  /\ stack' = Call("L144", "L148")
  /\ UNCHANGED <<t, i, err, result, lvars>>

\* Lines 149 and 156: the tests of the loops of parse_expr and parse_term.
OperatorFollows(tok, ops) == tok # NoneTok /\ tok.tipo = "SIMBOLO" /\ tok.lexema \in ops

\* parse_expr (lines 147-151).
parse_expr ==
  /\ Top.pc \in {"L148", "L149"}
  /\ IF Top.pc = "L148"
     THEN /\ i' = i
          /\ stack' = Call("L149", "L155")
     ELSE IF OperatorFollows(peek, {"+", "-"})
     THEN /\ i' = i + 1
          /\ stack' = Append([stack EXCEPT ![Len(stack)].mark = i], Frame("L155"))
     ELSE /\ i' = i
          /\ stack' = Return
  /\ UNCHANGED <<t, err, result, lvars>>

\* parse_term (lines 154-158).
parse_term ==
  /\ Top.pc \in {"L155", "L156"}
  /\ IF Top.pc = "L155"
     THEN /\ i' = i
          /\ stack' = Call("L156", "L162")
     ELSE IF OperatorFollows(peek, {"*", "/"})
     THEN /\ i' = i + 1
          /\ stack' = Append([stack EXCEPT ![Len(stack)].mark = i], Frame("L162"))
     ELSE /\ i' = i
          /\ stack' = Return
  /\ UNCHANGED <<t, err, result, lvars>>

\* parse_factor (lines 161-175), up to the call of match at line 172.
parse_factor ==
  /\ Top.pc = "L162"
  /\ LET tok == peek
     IN  IF tok = NoneTok
         THEN /\ err' = Append(err, ExprIncompleta)
              /\ i' = i
              /\ stack' = Return
         ELSE IF tok.tipo \in {"IDENTIFICADOR", "NUMERO"}
         THEN /\ err' = err
              /\ i' = i + 1
              /\ stack' = Return
         ELSE IF Is(tok, "DELIMITADOR", "(")
         THEN /\ err' = err
              /\ i' = i + 1
              /\ stack' = Call("L172", "L148")
         ELSE /\ err' = Append(err, FactorMsg(tok))
              /\ i' = i + 1
              /\ stack' = Return
  /\ UNCHANGED <<t, result, lvars>>

\* Lines 181-183 with the test off by one.
Sobran_strict(toks, j, errores) ==
  IF j + 1 < Len(toks) THEN Append(errores, ExtraMsg(toks[j + 1])) ELSE errores

\* Lines 181-183: the diagnostics once parse_programa has returned.
Sobran(toks, j, errores) ==
  IF j < Len(toks) THEN Append(errores, ExtraMsg(toks[j + 1])) ELSE errores

\* analizar_sintactico, lines 181-184.
analizar_sintactico ==
  /\ Top.pc = "L181"
  /\ err' = Sobran(t, i, err)
  /\ result' = <<[correcto |-> Len(err') = 0, errores |-> err']>>
  /\ stack' = Goto("done")
  /\ UNCHANGED <<t, i, lvars>>

\* Parser(tokens) is built and parse_programa is about to run (lines 178-179).
Init ==
  /\ t \in Inputs
  /\ i = 0
  /\ err = <<>>
  /\ stack = <<Frame("L181"), Frame("L86")>>
  /\ result = <<>>
  /\ LexerIdle

Next ==
  \/ match
  \/ parse_programa
  \/ parse_stmt
  \/ parse_decl
  \/ parse_assign
  \/ parse_expr
  \/ parse_term
  \/ parse_factor
  \/ analizar_sintactico

Spec == Init /\ [][Next]_vars

\* One interpreter thread runs the call to its end: a step that can be
\* taken is taken.
FairSpec == Init /\ [][Next]_vars /\ WF_vars(Next)

Done == Top.pc = "done"

-----------------------------------------------------------------------------
(* The grammar of the comments at lines 84-160, as a recogniser that tries *)
(* every derivation: each operator gives the set of offsets at which a     *)
(* phrase starting at offset p can end.                                    *)
(*   programa := 'programa' IDENT '(' ')' '{' stmt* '}'                    *)
(*   stmt     := decl | read | printf | assign | endstmt                   *)
(*   decl     := 'int' id (',' id)* ';'                                    *)
(*   read     := 'read' IDENT ';'                                          *)
(*   printf   := 'printf' '(' CADENA ')' ';'                               *)
(*   assign   := IDENT '=' expr ';'                                        *)
(*   endstmt  := 'end' ';'                                                 *)
(*   expr     := term (('+'|'-') term)*                                    *)
(*   term     := factor (('*'|'/') factor)*                                *)
(*   factor   := IDENT | NUMERO | '(' expr ')'                             *)

IsAt(s, p, tipo, lexema) == p < Len(s) /\ Is(s[p + 1], tipo, lexema)
KindAt(s, p, tipo) == p < Len(s) /\ s[p + 1].tipo = tipo

\* The offsets after the terminals given, if they stand at offset p on.
RECURSIVE Terminals(_, _, _)
Terminals(s, p, terms) ==
  IF terms = <<>> THEN {p}
  ELSE IF \/ terms[1][2] = None /\ KindAt(s, p, terms[1][1])
          \/ terms[1][2] # None /\ IsAt(s, p, terms[1][1], terms[1][2])
  THEN Terminals(s, p + 1, Tail(terms))
  ELSE {}

RECURSIVE ExprEnds(_, _), ExprRest(_, _), TermEnds(_, _), TermRest(_, _), FactorEnds(_, _)

FactorEnds(s, p) ==
  (IF KindAt(s, p, "IDENTIFICADOR") \/ KindAt(s, p, "NUMERO") THEN {p + 1} ELSE {})
  \cup
  (IF IsAt(s, p, "DELIMITADOR", "(")
   THEN UNION { Terminals(s, q, << <<"DELIMITADOR", ")">> >>) : q \in ExprEnds(s, p + 1) }
   ELSE {})

\* (('*'|'/') factor)* from offset q on.
TermRest(s, q) ==
  {q} \cup
  (IF IsAt(s, q, "SIMBOLO", "*") \/ IsAt(s, q, "SIMBOLO", "/")
   THEN UNION { TermRest(s, r) : r \in FactorEnds(s, q + 1) }
   ELSE {})

TermEnds(s, p) == UNION { TermRest(s, q) : q \in FactorEnds(s, p) }

\* (('+'|'-') term)* from offset q on.
ExprRest(s, q) ==
  {q} \cup
  (IF IsAt(s, q, "SIMBOLO", "+") \/ IsAt(s, q, "SIMBOLO", "-")
   THEN UNION { ExprRest(s, r) : r \in TermEnds(s, q + 1) }
   ELSE {})

ExprEnds(s, p) == UNION { ExprRest(s, q) : q \in TermEnds(s, p) }

\* (',' id)* from offset q on.
RECURSIVE DeclRest(_, _)
DeclRest(s, q) ==
  {q} \cup
  UNION { DeclRest(s, r) :
          r \in Terminals(s, q, << <<"DELIMITADOR", ",">>, <<"IDENTIFICADOR", None>> >>) }

StmtEnds(s, p) ==
  \* decl
  UNION { Terminals(s, r, << <<"DELIMITADOR", ";">> >>) :
          r \in UNION { DeclRest(s, q) :
                        q \in Terminals(s, p, << <<"PALABRA_RESERVADA", "int">>,
                                                 <<"IDENTIFICADOR", None>> >>) } }
  \* read
  \cup Terminals(s, p, << <<"PALABRA_RESERVADA", "read">>, <<"IDENTIFICADOR", None>>,
                          <<"DELIMITADOR", ";">> >>)
  \* printf
  \cup Terminals(s, p, << <<"PALABRA_RESERVADA", "printf">>, <<"DELIMITADOR", "(">>,
                          <<"CADENA", None>>, <<"DELIMITADOR", ")">>,
                          <<"DELIMITADOR", ";">> >>)
  \* assign
  \cup UNION { Terminals(s, r, << <<"DELIMITADOR", ";">> >>) :
               r \in UNION { ExprEnds(s, q) :
                             q \in Terminals(s, p, << <<"IDENTIFICADOR", None>>,
                                                      <<"SIMBOLO", "=">> >>) } }
  \* endstmt
  \cup Terminals(s, p, << <<"PALABRA_RESERVADA", "end">>, <<"DELIMITADOR", ";">> >>)

\* stmt* from offset q on.
RECURSIVE StmtsRest(_, _)
StmtsRest(s, q) == {q} \cup UNION { StmtsRest(s, r) : r \in StmtEnds(s, q) }

ProgramaEnds(s) ==
  UNION { Terminals(s, r, << <<"DELIMITADOR", "}">> >>) :
          r \in UNION { StmtsRest(s, q) :
                        q \in Terminals(s, 0, << <<"PALABRA_RESERVADA", "programa">>,
                                                 <<"IDENTIFICADOR", None>>,
                                                 <<"DELIMITADOR", "(">>,
                                                 <<"DELIMITADOR", ")">>,
                                                 <<"DELIMITADOR", "{">> >>) } }

\* The whole token sequence is a programa.
Derivable(s) == Len(s) \in ProgramaEnds(s)

-----------------------------------------------------------------------------
(* Claims about the parser.                                                *)

Texts_of(errores) == { errores[k].text : k \in DOMAIN errores }
ExtraText == "Tokens extra despues de cerrar el programa, empezando en '...' (linea ...)."
StmtText == "Sentencia no valida iniciando en ... (linea ...)."

\* C1: the result is valid, with no diagnostic, exactly when the whole token
\* sequence derives from programa; any other sequence gives an invalid
\* result with at least one diagnostic.
C1_ValidIffDerivable ==
  Done =>
    /\ Len(result) = 1
    /\ result[1].correcto = Derivable(t)
    /\ Derivable(t) => result[1].errores = <<>>
    /\ ~Derivable(t) => Len(result[1].errores) >= 1

\* A program with a parenthesised expression was accepted.
C1_Witness ==
  /\ Done
  /\ result[1].correcto
  /\ \E k \in DOMAIN t : Is(t[k], "SIMBOLO", "=") /\ Is(t[k + 1], "DELIMITADOR", "(")

LoopHeads == {"L91", "L120", "L149", "L156"}

\* A loop about to test its condition again has moved the cursor since the
\* iteration began.
LoopProgress == Top.pc \in LoopHeads /\ Top.mark # -1 => i > Top.mark

Extras == { k \in DOMAIN err : err[k].text = ExtraText }

\* C3: once parse_programa has returned, a cursor before the end of the
\* tokens gives exactly one trailing-content diagnostic, the last one, with
\* the lexeme and the line of the token at the cursor; a cursor at the end
\* gives none.
C3_Trailing ==
  IF Done
  THEN IF i < Len(t)
       THEN /\ Extras = {Len(err)}
            /\ err[Len(err)].got = <<t[i + 1].lexema>>
            /\ err[Len(err)].linea = <<"n", t[i + 1].linea>>
       ELSE Extras = {}
  ELSE Extras = {}

\* The program block was closed and a token was left.
C3_Witness ==
  /\ Done
  /\ i > 0 /\ i < Len(t)
  /\ Is(t[i], "DELIMITADOR", "}") /\ t[i + 1].lexema # "}"
  /\ Len(err) = 1

\* The call of match about to run, and whether it is a mismatch.
AtMatch == Len(stack) > 0 /\ Top.pc \in DOMAIN MatchCalls
Accepts ==
  /\ i < Len(t)
  /\ MatchCalls[Top.pc].tipo \in {None, t[i + 1].tipo}
  /\ MatchCalls[Top.pc].lexema \in {None, t[i + 1].lexema}

\* C4 as stated: the diagnostic of every mismatch tells what was found and
\* its line, or the end of input.
C4_FoundAndLine ==
  [][AtMatch /\ ~Accepts =>
       /\ Len(err') = Len(err) + 1
       /\ err'[Len(err')].got = (IF i < Len(t) THEN Found(t[i + 1]) ELSE <<"EOF">>)
       /\ err'[Len(err')].linea = (IF i < Len(t) THEN <<"n", t[i + 1].linea>> ELSE <<"-">>)]_vars

\* C4 amended: every mismatch is at a call that passes msg, and its
\* diagnostic is that fixed wording alone, which names what was expected
\* but neither the token found nor a line nor the end of input.
C4_FixedMessage ==
  [][AtMatch /\ ~Accepts =>
       /\ MatchCalls[Top.pc].msg # None
       /\ err' = Append(err, [text |-> MatchCalls[Top.pc].msg, esperado |-> <<>>,
                              got |-> <<>>, linea |-> <<>>])]_vars

\* A declaration lacked its ';'.
C4_Witness ==
  /\ err # <<>>
  /\ err[Len(err)].text = "Falta ';' al final de la declaracion."
  /\ i < Len(t)

\* C7: match either accepts the current token (cursor + 1, diagnostics
\* unchanged) or appends one diagnostic and moves the cursor by one if there
\* is a current token and not at all at the end of input; either way the
\* caller goes on with its next statement.
C7_MatchOutcomes ==
  [][AtMatch =>
       /\ IF Accepts
          THEN i' = i + 1 /\ err' = err
          ELSE /\ Len(err') = Len(err) + 1
               /\ SubSeq(err', 1, Len(err)) = err
               /\ i' = IF i < Len(t) THEN i + 1 ELSE i
       /\ stack' = IF MatchCalls[Top.pc].next = "ret"
                   THEN SubSeq(stack, 1, Len(stack) - 1)
                   ELSE [stack EXCEPT ![Len(stack)].pc = MatchCalls[Top.pc].next]]_vars

\* A mismatch on a token was followed by a mismatch at the end of input.
C7_Witness ==
  /\ Len(stack) = 1 /\ Top.pc = "L181"
  /\ Len(err) >= 2
  /\ err[Len(err)].text = FaltaCierre
  /\ i = Len(t)

\* The current token starts no statement.
NoStmt ==
  /\ Top.pc = "L97"
  /\ i < Len(t)
  /\ ~(t[i + 1].tipo = "PALABRA_RESERVADA" /\ t[i + 1].lexema \in {"int", "read", "printf", "end"})
  /\ t[i + 1].tipo # "IDENTIFICADOR"

\* C8: parse_stmt on a token that starts no statement appends one
\* unrecognised-statement diagnostic for it, moves the cursor by one and
\* returns to the loop of parse_programa, which tests the next token.
C8_InvalidStmt ==
  [][NoStmt =>
       /\ err' = Append(err, [text |-> StmtText, esperado |-> <<>>,
                              got |-> <<t[i + 1].tipo, t[i + 1].lexema>>,
                              linea |-> <<"n", t[i + 1].linea>>])
       /\ i' = i + 1
       /\ stack' = SubSeq(stack, 1, Len(stack) - 1)
       /\ stack'[Len(stack')].pc = "L91"]_vars

\* '#' was reported where a statement was expected and a token follows.
C8_Witness ==
  /\ Len(stack) > 0 /\ Top.pc = "L91"
  /\ err # <<>>
  /\ err[Len(err)].text = StmtText
  /\ err[Len(err)].got = <<"DESCONOCIDO", "#">>
  /\ i < Len(t)

\* C10: the missing-'}' and the trailing-content diagnostics never occur
\* together: the statement loop ends at '}' or at the end of input, so the
\* '}' is missed only at the end of input, and tokens are left over only
\* behind a matched '}'; parse_stmt never runs at the end of input, so
\* "Fin inesperado dentro del bloque." is never reported.
C10_Exclusive ==
  /\ ~(FaltaCierre \in Texts_of(err) /\ ExtraText \in Texts_of(err))
  /\ FinInesperado.text \notin Texts_of(err)
  /\ Len(stack) > 0 /\ Top.pc = "L93" => i = Len(t) \/ Is(t[i + 1], "DELIMITADOR", "}")
  /\ Len(stack) > 0 /\ Top.pc = "L97" => i < Len(t)
  /\ FaltaCierre \in Texts_of(err) => i = Len(t)
  /\ ExtraText \in Texts_of(err) => i > 0 /\ Is(t[i], "DELIMITADOR", "}")

\* A block was opened, had statements and was never closed.
C10_Witness == Done /\ FaltaCierre \in Texts_of(err) /\ Len(t) > 6 /\ Len(err) = 1

-----------------------------------------------------------------------------
(* Claims about the lexical analyser.                                      *)

IsEmitted(m) == m.lastgroup \notin {"ESPACIO", "LINE_COMMENT"}

\* The matches that became tokens, in order.
Emitted == SelectSeq(ms, IsEmitted)

\* C5: the matches, emitted or discarded, are contiguous from offset 0 in
\* source order and, at the end, reach the end of the text; the tokens are
\* the matches that are neither whitespace nor comment; a character that no
\* other pattern matches becomes a DESCONOCIDO token of length 1.
C5_Coverage ==
  /\ \A k \in DOMAIN ms :
       /\ ms[k].start = (IF k = 1 THEN 0 ELSE ms[k - 1].end)
       /\ ms[k].start < ms[k].end /\ ms[k].end <= Len(codigo)
       /\ (\A n \in 1..(Len(token_specs) - 1) :
             PatternEnd(token_specs[n], codigo, ms[k].start) = -1)
          => ms[k].lastgroup = "DESCONOCIDO" /\ ms[k].end = ms[k].start + 1
  /\ pos = (IF ms = <<>> THEN 0 ELSE ms[Len(ms)].end)
  /\ at = "L51" => pos = Len(codigo)
  /\ Len(tokens) = Len(Emitted)
  /\ \A k \in DOMAIN tokens :
       /\ tokens[k].lexema = Group(codigo, Emitted[k].start, Emitted[k].end)
       /\ tokens[k].tipo = "DESCONOCIDO" =>
            Emitted[k].lastgroup = "DESCONOCIDO" /\ Len(tokens[k].lexema) = 1

\* A text with a discarded match, an unknown character and another token
\* was analysed to its end.
C5_Witness ==
  /\ at = "L51"
  /\ Len(ms) > Len(tokens) /\ Len(tokens) >= 2
  /\ \E k \in DOMAIN tokens : tokens[k].tipo = "DESCONOCIDO" /\ tokens[k].lexema = "#"

\* The offsets at which a line starts after a line break ("\n", "\r\n" or
\* "\r", the breaks of str.splitlines that occur in the texts).
LineStarts(s) ==
  { e \in 1..Len(s) :
      \/ s[e] = "\n"
      \/ s[e] = "\r" /\ ~(e < Len(s) /\ s[e + 1] = "\n") }

Max(S) == CHOOSE x \in S : \A y \in S : y <= x

\* C6: the line of a token is 1 plus the number of line breaks before its
\* start, its column is 1 plus its distance from the start of its line.
C6_LineColumn ==
  /\ Len(tokens) = Len(Emitted)
  /\ \A k \in DOMAIN tokens :
       LET start == Emitted[k].start
           before == { e \in LineStarts(codigo) : e <= start }
       IN  /\ tokens[k].linea = 1 + Cardinality(before)
           /\ tokens[k].columna = start - Max(before \cup {0}) + 1

\* A token follows a discarded comment, on the next line.
C6_Witness ==
  /\ at = "L51"
  /\ \E k \in DOMAIN ms : ms[k].lastgroup = "LINE_COMMENT"
  /\ \E k \in DOMAIN tokens : tokens[k].linea = 2

\* The offset of the first quote or newline after offset p, the length of
\* the text if there is none.
NextQuoteOrNewline(s, p) ==
  LET stops == { q \in (p + 1)..(Len(s) - 1) : s[q + 1] \in {"\"", "\n"} }
  IN  IF stops = {} THEN Len(s) ELSE CHOOSE q \in stops : \A r \in stops : q <= r

\* C9 as stated: a match that starts at a quote is a CADENA that runs to the
\* next quote or, without one, to the end of the line.
C9_QuoteToEndOfLine ==
  \A k \in DOMAIN ms :
    At(codigo, ms[k].start) = "\"" =>
      LET q == NextQuoteOrNewline(codigo, ms[k].start)
      IN  /\ ms[k].lastgroup = "CADENA"
          /\ ms[k].end = IF At(codigo, q) = "\"" THEN q + 1 ELSE q

\* C9 amended: a match that starts at a quote is a CADENA, running through
\* the next quote, only if that quote comes before any newline; otherwise
\* the opening quote alone is a DESCONOCIDO match of length 1.  A CADENA
\* token starts at a quote, holds no newline and has the text as it stands.
C9_ClosedOnly ==
  /\ \A k \in DOMAIN ms :
       At(codigo, ms[k].start) = "\"" =>
         LET q == NextQuoteOrNewline(codigo, ms[k].start)
         IN  IF At(codigo, q) = "\""
             THEN ms[k].lastgroup = "CADENA" /\ ms[k].end = q + 1
             ELSE ms[k].lastgroup = "DESCONOCIDO" /\ ms[k].end = ms[k].start + 1
  /\ Len(tokens) = Len(Emitted)
  /\ \A k \in DOMAIN tokens :
       tokens[k].tipo = "CADENA" =>
         /\ At(codigo, Emitted[k].start) = "\""
         /\ \A q \in Emitted[k].start..(Emitted[k].end - 1) : At(codigo, q) # "\n"
         /\ tokens[k].lexema = Group(codigo, Emitted[k].start, Emitted[k].end)

\* A closed string and an opening quote without a closing one were analysed.
C9_Witness ==
  /\ at = "L51"
  /\ \E k \in DOMAIN tokens : tokens[k].tipo = "CADENA"
  /\ \E k \in DOMAIN tokens : tokens[k].tipo = "DESCONOCIDO" /\ tokens[k].lexema = "\""

====
